---- MODULE Spec2Model ----
(***************************************************************************)
(* Polygonner: a pygame arcade game.  One player polygon moves under       *)
(* keyboard acceleration and friction, eats smaller enemy polygons and     *)
(* dies on larger ones.                                                    *)
(*                                                                         *)
(*   src/Python Game/game.py              title loop, gameplay loop,       *)
(*                                        pixel-probe collision            *)
(*   src/Python Game/Python Game/Game.py  earlier variant, circle-distance *)
(*                                        collision scan                   *)
(*                                                                         *)
(* NUMBERS.  The program computes in Python floats.  The model computes in *)
(* fixed point and truncates toward zero after every product or quotient:  *)
(*   lengths, positions, speeds   1/PX of a pixel                          *)
(*   angles                       1/FRAMERATE of a radian ("ticks"), the   *)
(*                                unit of random.randint(-3, 3)/FRAMERATE  *)
(*   friction, random.random()    thousandths                              *)
(*   cos, sin                     ten-thousandths, tabulated per tick      *)
(* int(x) of the program is Trunc(x, PX): the pixel that holds x.          *)
(*                                                                         *)
(* SPECIFICATIONS.                                                         *)
(*   Spec       game.py from main() on: title frames, gameplay frames in   *)
(*              two steps (moves and draws, then the collision check and   *)
(*              the rest of the frame), game-over frames                   *)
(*   SpecSpawn  the spawn draw of a frame at every score up to MaxScore    *)
(*   SpecProbe  check_collision on any surface and any enemy list          *)
(*   SpecNear   check_collision on the surface drawn from enemies of both  *)
(*              size classes near the player                               *)
(*   SpecScan   the collision pass of Game.py on any enemy list            *)
(***************************************************************************)
EXTENDS Integers, Sequences, FiniteSets, TLC

VARIABLES
    phase,      \* where main() is: "TITLE" (title_screen_loop), "PLAYING"
                \* (gameplay_loop, game_is_playing), "GAME_OVER" (gameplay_loop,
                \* not game_is_playing), "terminated" (quit_game), "crashed"
                \* (an exception left main)
    pc,         \* position inside the loop body: "frame" = top of the loop,
                \* "spawned" = after the spawn draw, "collide" = before the
                \* collision check of a PLAYING frame
    game_data,  \* the GameData in use: score, window_tint, player, enemies,
                \* explosions
    screen,     \* blue channel of the surface at the pixels this frame's probe
                \* reads (a function pixel -> 0..255)
    keys,       \* the key state pygame.key.get_pressed() returned last
    events,     \* pygame's event queue: {} or {"QUIT"}
    frames_per_enemy_spawn,  \* the local of both loops
    collision,  \* what check_collision returned last ("" before the first)
    frame,      \* iterations of the current loop so far
    player,     \* Game.py: the global player (position, size)
    enemies,    \* Game.py: the global enemy list
    isDone,     \* Game.py: the loop flag
    passes      \* Game.py: iterations of the main loop so far

vars == <<phase, pc, game_data, screen, keys, events, frames_per_enemy_spawn,
          collision, frame, player, enemies, isDone, passes>>

gameVars == <<phase, pc, game_data, screen, keys, events,
              frames_per_enemy_spawn, collision, frame>>
scanVars == <<player, enemies, isDone, passes>>

----------------------------------------------------------------------------
(* Bounds of the model *)

\* The surface.  The program's is 800 x 600; every use of the two numbers is
\* parametric, and the model checks a small surface so that walls and enemies
\* are a few frames away.
WINDOW_WIDTH == 18
WINDOW_HEIGHT == 16
\* Frames explored per loop.
MaxFrames == 4
\* Enemies alive at once.
MaxEnemies == 2
\* Particles per explosion (the program asks for 32).
N_PARTICLES == 1

----------------------------------------------------------------------------
(* Constants of game.py *)

FRAMERATE == 60
PLAYER_INIT_SIZE == 6
PLAYER_INIT_SIDES == 6
PLAYER_INIT_FRICTION == 875           \* 0.875
PLAYER_ACC_LIMIT == 800\* 0.8 pixel
PLAYER_SPEED_LIMIT == 24
FRAMES_PER_ENEMY_SPAWN_INIT == 50
FRAMES_PER_ENEMY_SPAWN_MIN == 20
ENEMY_SIZE_SCALE == 5
ENEMY_ANGLE_VARIANCE == 850           \* 0.85
ENEMY_SPEED_MIN == 20
ENEMY_SPEED_MAX == 200
ENEMY_BIG_COLOR_CODE == 4
ENEMY_SMALL_COLOR_CODE == 3
POLY_ROTATION_MAX == 3                \* int(1.0 * math.pi)
POLY_MAX_SIDES == 10
PARTICLE_FRICTION == 800              \* 0.8
PARTICLE_MAX_SPEED == 10
RING_POINTS == 12

\* Fixed-point resolution of the float fields of MoveData.
PX == 100
\* Resolution of cos and sin.
TRIG == 10000
\* 2.0 * math.pi in ticks (376.99).
TWO_PI == 377

----------------------------------------------------------------------------
(* Arithmetic *)

Abs(a) == IF a < 0 THEN -a ELSE a

\* a / b, truncated toward zero (b > 0): what int() keeps of a float.
Trunc(a, b) == IF a >= 0 THEN a \div b ELSE -((-a) \div b)

\* a * num / den
Scale(a, num, den) == Trunc(a * num, den)

RECURSIVE SqrtBetween(_, _, _)
SqrtBetween(n, lo, hi) ==
    IF lo >= hi THEN lo
    ELSE LET mid == (lo + hi + 1) \div 2
         IN  IF mid * mid <= n THEN SqrtBetween(n, mid, hi)
             ELSE SqrtBetween(n, lo, mid - 1)

\* math.sqrt, truncated
Sqrt(n) == SqrtBetween(n, 0, 46340)

\* length(vec)
length(vec) == Sqrt(vec[1] * vec[1] + vec[2] * vec[2])

CosTable ==
   <<
      10000, 9999, 9994, 9988, 9978, 9965, 9950, 9932, 9911, 9888, 9861, 9832, 9801,
      9766, 9729, 9689, 9647, 9601, 9553, 9503, 9450, 9394, 9335, 9274, 9211, 9144,
      9076, 9004, 8931, 8855, 8776, 8695, 8611, 8525, 8437, 8346, 8253, 8158, 8061,
      7961, 7859, 7755, 7648, 7540, 7429, 7317, 7202, 7086, 6967, 6847, 6724, 6600,
      6474, 6346, 6216, 6085, 5952, 5817, 5680, 5543, 5403, 5262, 5120, 4976, 4830,
      4684, 4536, 4387, 4236, 4085, 3932, 3778, 3624, 3468, 3311, 3153, 2995, 2835,
      2675, 2514, 2352, 2190, 2027, 1864, 1700, 1535, 1370, 1205, 1039, 874, 707,
      541, 375, 208, 41, -125, -292, -459, -625, -791, -957, -1123, -1288, -1454,
      -1618, -1782, -1946, -2109, -2272, -2434, -2595, -2756, -2916, -3075, -3233, -3390, -3546,
      -3702, -3856, -4009, -4161, -4312, -4462, -4611, -4758, -4904, -5048, -5192, -5333, -5474,
      -5612, -5749, -5885, -6019, -6151, -6282, -6411, -6538, -6663, -6786, -6908, -7027, -7145,
      -7260, -7374, -7485, -7595, -7702, -7808, -7911, -8011, -8110, -8206, -8301, -8392, -8482,
      -8569, -8654, -8736, -8816, -8893, -8968, -9041, -9111, -9178, -9243, -9305, -9365, -9422,
      -9477, -9529, -9578, -9624, -9668, -9710, -9748, -9784, -9817, -9847, -9875, -9900, -9922,
      -9941, -9958, -9972, -9983, -9991, -9997, -10000, -10000, -9997, -9991, -9983, -9972, -9958,
      -9941, -9922, -9900, -9875, -9847, -9817, -9784, -9748, -9709, -9668, -9624, -9577, -9528,
      -9476, -9422, -9365, -9305, -9242, -9178, -9110, -9040, -8968, -8893, -8815, -8735, -8653,
      -8568, -8481, -8392, -8300, -8206, -8109, -8011, -7910, -7807, -7701, -7594, -7485, -7373,
      -7259, -7144, -7026, -6907, -6785, -6662, -6536, -6409, -6281, -6150, -6018, -5884, -5748,
      -5611, -5472, -5332, -5190, -5047, -4903, -4757, -4609, -4461, -4311, -4160, -4008, -3855,
      -3700, -3545, -3389, -3231, -3073, -2914, -2754, -2594, -2433, -2271, -2108, -1945, -1781,
      -1617, -1452, -1287, -1122, -956, -790, -623, -457, -291, -124, 43, 209, 376,
      543, 709, 875, 1041, 1206, 1372, 1537, 1701, 1865, 2029, 2192, 2354, 2515,
      2676, 2837, 2996, 3155, 3312, 3469, 3625, 3780, 3934, 4086, 4238, 4388, 4537,
      4685, 4832, 4977, 5121, 5263, 5404, 5544, 5682, 5818, 5953, 6086, 6217, 6347,
      6475, 6601, 6725, 6848, 6968, 7087, 7203, 7318, 7430, 7541, 7649, 7756, 7860,
      7962, 8061, 8159, 8254, 8347, 8438, 8526, 8612, 8695, 8777, 8855, 8931, 9005,
      9076, 9145, 9211, 9275, 9336, 9394, 9450, 9503, 9554, 9602, 9647, 9689, 9729,
      9767, 9801, 9833, 9862, 9888, 9911, 9932, 9950, 9965, 9978, 9988, 9994, 9999
   >>

SinTable ==
   <<
      0, 167, 333, 500, 666, 832, 998, 1164, 1329, 1494, 1659, 1823, 1987,
      2150, 2312, 2474, 2635, 2796, 2955, 3114, 3272, 3429, 3585, 3740, 3894, 4047,
      4199, 4350, 4499, 4647, 4794, 4940, 5084, 5227, 5368, 5508, 5646, 5783, 5918,
      6052, 6184, 6314, 6442, 6569, 6693, 6816, 6937, 7056, 7174, 7289, 7402, 7513,
      7622, 7729, 7833, 7936, 8036, 8134, 8230, 8323, 8415, 8504, 8590, 8674, 8756,
      8835, 8912, 8986, 9058, 9128, 9194, 9259, 9320, 9379, 9436, 9490, 9541, 9590,
      9636, 9679, 9719, 9757, 9792, 9825, 9854, 9881, 9906, 9927, 9946, 9962, 9975,
      9985, 9993, 9998, 10000, 9999, 9996, 9989, 9980, 9969, 9954, 9937, 9917, 9894,
      9868, 9840, 9809, 9775, 9738, 9699, 9657, 9613, 9565, 9516, 9463, 9408, 9350,
      9290, 9227, 9161, 9093, 9022, 8949, 8874, 8796, 8715, 8632, 8547, 8459, 8369,
      8277, 8182, 8085, 7986, 7884, 7781, 7675, 7567, 7457, 7345, 7231, 7115, 6997,
      6877, 6755, 6631, 6505, 6378, 6248, 6117, 5985, 5850, 5714, 5577, 5438, 5297,
      5155, 5011, 4867, 4720, 4573, 4424, 4274, 4123, 3970, 3817, 3662, 3506, 3350,
      3192, 3034, 2875, 2715, 2554, 2392, 2230, 2068, 1904, 1740, 1576, 1411, 1246,
      1080, 915, 749, 582, 416, 249, 83, -84, -251, -417, -584, -750, -916,
      -1082, -1247, -1413, -1577, -1742, -1906, -2069, -2232, -2394, -2555, -2716, -2876, -3035,
      -3194, -3351, -3508, -3663, -3818, -3971, -4124, -4275, -4425, -4574, -4722, -4868, -5013,
      -5156, -5298, -5439, -5578, -5716, -5852, -5986, -6119, -6250, -6379, -6506, -6632, -6756,
      -6878, -6998, -7116, -7232, -7346, -7458, -7568, -7676, -7782, -7885, -7987, -8086, -8183,
      -8277, -8370, -8460, -8548, -8633, -8716, -8796, -8874, -8950, -9023, -9094, -9162, -9227,
      -9290, -9351, -9408, -9463, -9516, -9566, -9613, -9658, -9700, -9739, -9775, -9809, -9840,
      -9868, -9894, -9917, -9937, -9954, -9969, -9981, -9990, -9996, -9999, -10000, -9998, -9993,
      -9985, -9975, -9962, -9946, -9927, -9905, -9881, -9854, -9825, -9792, -9757, -9719, -9678,
      -9635, -9589, -9541, -9489, -9435, -9379, -9320, -9258, -9194, -9127, -9058, -8986, -8911,
      -8835, -8755, -8673, -8589, -8503, -8414, -8323, -8229, -8133, -8035, -7935, -7832, -7728,
      -7621, -7512, -7401, -7288, -7173, -7055, -6936, -6815, -6692, -6568, -6441, -6313, -6183,
      -6051, -5917, -5782, -5645, -5507, -5367, -5226, -5083, -4939, -4793, -4646, -4498, -4348,
      -4198, -4046, -3893, -3739, -3584, -3428, -3271, -3113, -2954, -2794, -2634, -2473, -2311,
      -2148, -1985, -1822, -1658, -1493, -1328, -1163, -997, -831, -665, -498, -332, -165
   >>

\* cos and sin of an angle in ticks
cos(angle) == CosTable[(angle % TWO_PI) + 1]
sin(angle) == SinTable[(angle % TWO_PI) + 1]

----------------------------------------------------------------------------
(* Actor kinematics (game.py) *)

Min2(a, b) == IF a < b THEN a ELSE b
Range(s) == {s[i] : i \in 1..Len(s)}
Max2(a, b) == IF a > b THEN a ELSE b

\* MoveData(speed, position, acceleration, friction, rotation, rotation_rate)
MoveData(speed, position, acceleration, friction, rotation, rotation_rate) ==
    [speed |-> speed, position |-> position, acceleration |-> acceleration,
     friction |-> friction, rotation |-> rotation,
     rotation_rate |-> rotation_rate]

\* SpriteData(size, num_sides, fill_color); PolygonActor.__init__ sets the
\* outline white whatever the caller gave.
SpriteData(size, num_sides, fill_color) ==
    [size |-> size, num_sides |-> num_sides,
     outline_color |-> <<255, 255, 255>>, fill_color |-> fill_color,
     verts |-> <<>>]

\* Actor.modify_speed
Actor_modify_speed(md) ==
    [md EXCEPT !.speed = <<Scale(md.speed[1], md.friction, 1000),
                           Scale(md.speed[2], md.friction, 1000)>>]

\* PlayerActor.accelerate: the acceleration list it builds from the keys held
PlayerActor_accelerate(held) ==
    LET limit == Scale(PX, PLAYER_ACC_LIMIT, 1000)
        ax == (IF "RIGHT" \in held THEN limit ELSE 0)
              - (IF "LEFT" \in held THEN limit ELSE 0)
        ay == (IF "DOWN" \in held THEN limit ELSE 0)
              - (IF "UP" \in held THEN limit ELSE 0)
        acc_mag == length(<<ax, ay>>)
    IN  IF acc_mag > limit
        THEN <<Scale(ax, limit, acc_mag), Scale(ay, limit, acc_mag)>>
        ELSE <<ax, ay>>

\* PlayerActor.modify_speed: clamp the magnitude, then the base friction
PlayerActor_modify_speed(md) ==
    LET limit == PLAYER_SPEED_LIMIT * PX
        speed_mag == length(md.speed)
        clamped == IF speed_mag > limit
                   THEN [md EXCEPT !.speed = <<Scale(md.speed[1], limit, speed_mag),
                                               Scale(md.speed[2], limit, speed_mag)>>]
                   ELSE md
    IN  Actor_modify_speed(clamped)

\* Actor.move: speed += acceleration
add_acceleration(md) ==
    [md EXCEPT !.speed = <<md.speed[1] + md.acceleration[1],
                           md.speed[2] + md.acceleration[2]>>]

\* Actor.move: position += speed, then the rotation
add_speed(md) ==
    [md EXCEPT !.position = <<md.position[1] + md.speed[1],
                              md.position[2] + md.speed[2]>>,
               !.rotation = (md.rotation + md.rotation_rate) % TWO_PI]

\* Actor.move after self.accelerate().  self.modify_speed() is the override
\* of PlayerActor when is_player, Actor's own otherwise.
Actor_move(md, is_player) ==
    add_speed(IF is_player THEN PlayerActor_modify_speed(add_acceleration(md))
                           ELSE Actor_modify_speed(add_acceleration(md)))

\* PlayerActor.move had it forgotten the two tests on position[1]
ClampToWalls_XOnly(position, size) ==
    LET x1 == IF position[1] < size * PX THEN size * PX ELSE position[1]
        x2 == IF x1 > (WINDOW_WIDTH - size) * PX
              THEN (WINDOW_WIDTH - size) * PX ELSE x1
    IN  <<x2, position[2]>>

\* The four wall tests of PlayerActor.move, in the program's order
ClampToWalls(position, size) ==
    LET x1 == IF position[1] < size * PX THEN size * PX ELSE position[1]
        x2 == IF x1 > (WINDOW_WIDTH - size) * PX
              THEN (WINDOW_WIDTH - size) * PX ELSE x1
        y1 == IF position[2] < size * PX THEN size * PX ELSE position[2]
        y2 == IF y1 > (WINDOW_HEIGHT - size) * PX
              THEN (WINDOW_HEIGHT - size) * PX ELSE y1
    IN  <<x2, y2>>

\* PlayerActor.move after super().move() left the move data md
clamp(p, md) ==
    [p EXCEPT !.move_data =
        [md EXCEPT !.position = ClampToWalls(md.position, p.sprite_data.size)]]

\* PlayerActor.move
PlayerActor_move(p, held) ==
    clamp(p, Actor_move([p.move_data EXCEPT
                            !.acceleration = PlayerActor_accelerate(held)],
                        TRUE))

\* EnemyActor and particles: Actor.move with the base accelerate and modify_speed
PolygonActor_move(md) == Actor_move(md, FALSE)

----------------------------------------------------------------------------
(* Polygon geometry and the surface *)

\* cos and sin of a vertex direction.  With no rotation the directions on the
\* axes are exactly 1.0 in floats; a rotated polygon (a non-zero multiple of
\* 1/FRAMERATE radian) never has one, so its values stay below TRIG.
polycos(angle, rotation) ==
    IF rotation = 0 THEN cos(angle)
    ELSE Max2(1 - TRIG, Min2(TRIG - 1, cos(angle)))
polysin(angle, rotation) ==
    IF rotation = 0 THEN sin(angle)
    ELSE Max2(1 - TRIG, Min2(TRIG - 1, sin(angle)))

\* PolygonActor.generate_poly: the verts list
generate_poly(md, sd) ==
    [i \in 1..sd.num_sides |->
        LET angle == Trunc(TWO_PI * (i - 1), sd.num_sides) + md.rotation
        IN  <<Scale(sd.size * PX, polycos(angle, md.rotation), TRIG) + md.position[1],
              Scale(sd.size * PX, polysin(angle, md.rotation), TRIG) + md.position[2]>>]

\* int(point[0]), int(point[1])
Pixel(point) == <<Trunc(point[1], PX), Trunc(point[2], PX)>>

OnSurface(pixel) ==
    /\ 0 <= pixel[1] /\ pixel[1] < WINDOW_WIDTH
    /\ 0 <= pixel[2] /\ pixel[2] < WINDOW_HEIGHT

\* pygame.draw.polygon(surface, color, verts): the vertices are cut to whole
\* pixels and every pixel inside or on the convex outline takes the colour.
\* PixelVerts is the outline in whole pixels.
PixelVerts(verts) == [i \in 1..Len(verts) |-> Pixel(verts[i])]

Cross(a, b, p) == (b[1] - a[1]) * (p[2] - a[2]) - (b[2] - a[2]) * (p[1] - a[1])

Covers(outline, pixel) ==
    LET n == Len(outline)
    IN  /\ n >= 3
        /\ \E i \in 1..n : outline[i][1] <= pixel[1]
        /\ \E i \in 1..n : outline[i][1] >= pixel[1]
        /\ \E i \in 1..n : outline[i][2] <= pixel[2]
        /\ \E i \in 1..n : outline[i][2] >= pixel[2]
        /\ \/ \A i \in 1..n : Cross(outline[i], outline[(i % n) + 1], pixel) >= 0
           \/ \A i \in 1..n : Cross(outline[i], outline[(i % n) + 1], pixel) <= 0

\* The probe points of PlayerActor.check_collision: the vertices of the last
\* draw, the centre, and the ring of 12 at half the size.
points_to_check(p) ==
    p.sprite_data.verts
    \o <<p.move_data.position>>
    \o [i \in 1..RING_POINTS |->
          LET angle == Trunc(TWO_PI * (i - 1), RING_POINTS)
          IN  <<Scale(Trunc(p.sprite_data.size * PX, 2), cos(angle), TRIG)
                    + p.move_data.position[1],
                Scale(Trunc(p.sprite_data.size * PX, 2), sin(angle), TRIG)
                    + p.move_data.position[2]>>]

\* The pixels check_collision reads for the player p that lie on the surface
ProbePixels(p) ==
    {px \in {Pixel(point) : point \in Range(points_to_check(p))} : OnSurface(px)}

\* The outline of every enemy as enemy.draw() computes it, in whole pixels
EnemyOutlines(es) ==
    [k \in 1..Len(es) |->
        PixelVerts(generate_poly(es[k].move_data, es[k].sprite_data))]

\* The last polygon of outlines that covers the pixel (0: none)
TopCover(outlines, pixel) ==
    IF \E k \in 1..Len(outlines) : Covers(outlines[k], pixel)
    THEN CHOOSE k \in 1..Len(outlines) :
             /\ Covers(outlines[k], pixel)
             /\ \A j \in (k + 1)..Len(outlines) : ~Covers(outlines[j], pixel)
    ELSE 0

\* The blue channel of a pixel under enemy number top (0: under no enemy)
BlueUnder(top, es, own, pixel, p_blue, tint) ==
    IF top # 0 THEN es[top].sprite_data.fill_color[3]
    ELSE IF Covers(own, pixel) THEN p_blue ELSE tint

\* The surface after screen.fill(window_tint), player.draw() and every
\* enemy.draw() in list order, at the pixels the probe reads: the blue channel
\* of the last polygon drawn over the pixel.
\* (Left out: the anti-aliased white outline drawn after each fill, which
\* blends the edge pixels toward white, and the particles, which carry the
\* player's colour and lie under the player.)
Paint(pixels, es, outlines, own, p_blue, tint) ==
    [px \in pixels |-> BlueUnder(TopCover(outlines, px), es, own, px, p_blue, tint)]

Draw(gd) ==
    Paint(ProbePixels(gd.player), gd.enemies, EnemyOutlines(gd.enemies),
          PixelVerts(gd.player.sprite_data.verts),
          gd.player.sprite_data.fill_color[3], gd.window_tint[3])

----------------------------------------------------------------------------
(* Enemies, explosions and the collision probe (game.py) *)

\* EnemyActor.update_color: the fill colour for the player's size p_size
update_color(e, p_size) ==
    LET e_size == e.sprite_data.size
    IN  [e EXCEPT !.sprite_data.fill_color =
            IF e_size > p_size
            THEN <<Trunc(255 * p_size, e_size), 0, ENEMY_BIG_COLOR_CODE>>
            ELSE <<0, Trunc(255 * e_size, p_size), ENEMY_SMALL_COLOR_CODE>>]

\* d is what EnemyActor.__init__ may draw from random for a player of size
\* p_size: randint for size, edge, rand_speed, num_sides and rotation_rate;
\* random.random() (in thousandths) for the place along the edge and for the
\* jitter.
RandomDraws(p_size, d) ==
    /\ d.size \in Trunc(p_size, ENEMY_SIZE_SCALE)..(p_size * ENEMY_SIZE_SCALE)
    /\ d.edge \in 0..3
    /\ d.along \in 0..999
    /\ d.jitter \in 0..999
    /\ d.rand_speed \in ENEMY_SPEED_MIN..ENEMY_SPEED_MAX
    /\ d.num_sides \in 3..POLY_MAX_SIDES
    /\ d.rotation_rate \in (-POLY_ROTATION_MAX)..POLY_ROTATION_MAX

\* EnemyActor.__init__(player_ref, screen) with the draws d
EnemyActor(p_size, d) ==
    LET size == IF d.size < 4 THEN 4 ELSE d.size
        jit == Scale(ENEMY_ANGLE_VARIANCE, 2 * d.jitter - 1000, 1000)
        pos == CASE d.edge = 0 -> <<-(size * PX), Scale(WINDOW_HEIGHT * PX, d.along, 1000)>>
                 [] d.edge = 1 -> <<(WINDOW_WIDTH + size) * PX,
                                    Scale(WINDOW_HEIGHT * PX, d.along, 1000)>>
                 [] d.edge = 2 -> <<Scale(WINDOW_WIDTH * PX, d.along, 1000), -(size * PX)>>
                 [] d.edge = 3 -> <<Scale(WINDOW_WIDTH * PX, d.along, 1000),
                                    (WINDOW_HEIGHT + size) * PX>>
        dir == CASE d.edge = 0 -> <<1000, jit>>
                 [] d.edge = 1 -> <<-1000, jit>>
                 [] d.edge = 2 -> <<jit, 1000>>
                 [] d.edge = 3 -> <<jit, -1000>>
        speed == <<Trunc(dir[1] * d.rand_speed * PX, 1000 * FRAMERATE),
                   Trunc(dir[2] * d.rand_speed * PX, 1000 * FRAMERATE)>>
    IN  update_color(
            [move_data |-> MoveData(speed, pos, <<0, 0>>, 1000, 0, d.rotation_rate),
             sprite_data |-> SpriteData(size, d.num_sides, <<0, 0, 0>>)],
            p_size)

\* enemy.move() for every enemy of the list
MoveEnemies(es) ==
    [k \in 1..Len(es) |-> [es[k] EXCEPT !.move_data = PolygonActor_move(@)]]

\* Explosion.__init__(player.move_data, player.sprite_data, n_particles, ...).
\* Every particle's MoveData is built with position=self.move_data.position and
\* acceleration=self.move_data.acceleration: the player's own two list
\* objects, not copies.  The player never rebinds its position list, so a
\* particle's position IS the player's position; PlayerActor.accelerate
\* rebinds its acceleration to a fresh list every frame, so the particles keep
\* the list of the frame that made them, with the values that frame gave it.
\* draws[i] is particle i's pair of random.random() values, in thousandths.
Explosion(md, sd, draws) ==
    [acceleration |-> md.acceleration,
     fill_color |-> sd.fill_color,
     particles |->
        [i \in 1..Len(draws) |->
            [speed |-> <<Scale(PARTICLE_MAX_SPEED * PX, 2 * draws[i][1] - 1000, 1000),
                         Scale(PARTICLE_MAX_SPEED * PX, 2 * draws[i][2] - 1000, 1000)>>,
             rotation |-> 0]]]

\* particle.move() for particles i.. of one explosion; pos is the shared
\* position list.  Gives the particles and the position after the moves.
RECURSIVE MoveParticles(_, _, _, _)
RECURSIVE MovedParticle(_, _, _, _)
MoveParticles(particles, acceleration, pos, i) ==
    IF i > Len(particles) THEN [particles |-> particles, position |-> pos]
    ELSE MovedParticle(particles, acceleration, i,
                       PolygonActor_move(
                           MoveData(particles[i].speed, pos, acceleration,
                                    PARTICLE_FRICTION, particles[i].rotation, 0)))

\* particle i has moved and its move data is md: on to the next particle
MovedParticle(particles, acceleration, i, md) ==
    MoveParticles(
        [particles EXCEPT ![i] = [speed |-> md.speed, rotation |-> md.rotation]],
        acceleration, md.position, i + 1)

\* explosion.update() for explosions j.. of the list, in order.  The clock
\* has passed start_time + duration for the first `expired` explosions (the
\* oldest); those drop their particles after moving them.
RECURSIVE UpdateExplosions(_, _, _)
RECURSIVE UpdatedExplosion(_, _, _, _)
UpdateExplosions(gd, j, expired) ==
    IF j > Len(gd.explosions) THEN gd
    ELSE UpdatedExplosion(gd, j, expired,
                          MoveParticles(gd.explosions[j].particles,
                                        gd.explosions[j].acceleration,
                                        gd.player.move_data.position, 1))

\* the particles of explosion j have moved, with the result r: on to the next
UpdatedExplosion(gd, j, expired, r) ==
    UpdateExplosions([gd EXCEPT
                         !.explosions[j].particles =
                             IF j <= expired THEN <<>> ELSE r.particles,
                         !.player.move_data.position = r.position],
                     j + 1, expired)

\* The nearest-enemy loop of check_collision: index of the first enemy at the
\* least squared distance from point
closest_enemy(es, point) ==
    LET square_dist(k) ==
            LET x_diff == es[k].move_data.position[1] - point[1]
                y_diff == es[k].move_data.position[2] - point[2]
            IN  x_diff * x_diff + y_diff * y_diff
    IN  CHOOSE k \in 1..Len(es) :
            /\ \A j \in 1..Len(es) : square_dist(k) <= square_dist(j)
            /\ \A j \in 1..(k - 1) : square_dist(j) > square_dist(k)

RemoveAt(s, k) == [i \in 1..(Len(s) - 1) |-> IF i < k THEN s[i] ELSE s[i + 1]]

\* The small-enemy branch without self.sprite_data.size += 1
Eat_NoGrowth(p, es, point) ==
    LET recoloured == [k \in 1..Len(es) |-> update_color(es[k], p.sprite_data.size)]
        c == closest_enemy(recoloured, point)
    IN  [result |-> "EAT",
         player |-> [p EXCEPT
                        !.move_data.rotation_rate = recoloured[c].move_data.rotation_rate,
                        !.sprite_data.num_sides = recoloured[c].sprite_data.num_sides],
         enemies |-> RemoveAt(recoloured, c)]

\* The small-enemy branch without the enemy.update_color() loop
Eat_NoRecolour(p, es, point) ==
    LET c == closest_enemy(es, point)
    IN  [result |-> "EAT",
         player |-> [p EXCEPT
                        !.move_data.rotation_rate = es[c].move_data.rotation_rate,
                        !.sprite_data.num_sides = es[c].sprite_data.num_sides,
                        !.sprite_data.size = @ + 1],
         enemies |-> RemoveAt(es, c)]

\* The small-enemy branch of check_collision for the probe point that hit
Eat(p, es, point) ==
    LET recoloured == [k \in 1..Len(es) |-> update_color(es[k], p.sprite_data.size)]
        c == closest_enemy(recoloured, point)
    IN  [result |-> "EAT",
         player |-> [p EXCEPT
                        !.move_data.rotation_rate = recoloured[c].move_data.rotation_rate,
                        !.sprite_data.num_sides = recoloured[c].sprite_data.num_sides,
                        !.sprite_data.size = @ + 1],
         enemies |-> RemoveAt(recoloured, c)]

\* The loop over points_to_check from point i on.  surface is the blue
\* channel by pixel; a pixel outside it makes get_at raise IndexError, and so
\* does enemies[0] on an empty list.
RECURSIVE ProbeFrom(_, _, _, _, _)
ProbeFrom(p, es, surface, points, i) ==
    IF i > Len(points) THEN [result |-> "NONE", player |-> p, enemies |-> es]
    ELSE IF ~OnSurface(Pixel(points[i]))
         THEN [result |-> "IndexError", player |-> p, enemies |-> es]
    ELSE LET blue_code == surface[Pixel(points[i])]
         IN  IF blue_code = ENEMY_BIG_COLOR_CODE
             THEN [result |-> "DEAD", player |-> p, enemies |-> es]
             ELSE IF blue_code = ENEMY_SMALL_COLOR_CODE
                  THEN IF es = <<>>
                       THEN [result |-> "IndexError", player |-> p, enemies |-> es]
                       ELSE Eat(p, es, points[i])
                  ELSE ProbeFrom(p, es, surface, points, i + 1)

\* check_collision had it looked for the big code at every probe point
\* before anything else
check_collision_DeathFirst(p, es, surface) ==
    LET points == points_to_check(p)
    IN  IF \E i \in 1..Len(points) :
               /\ OnSurface(Pixel(points[i]))
               /\ surface[Pixel(points[i])] = ENEMY_BIG_COLOR_CODE
        THEN [result |-> "DEAD", player |-> p, enemies |-> es]
        ELSE ProbeFrom(p, es, surface, points, 1)

\* PlayerActor.check_collision(enemies): the result with the player and the
\* enemy list as the call leaves them
check_collision(p, es, surface) ==
    ProbeFrom(p, es, surface, points_to_check(p), 1)

\* initialize_game_data()
initialize_game_data ==
    [window_tint |-> <<35, 15, 70>>,
     font_color |-> <<100, 100, 240>>,
     score |-> 0,
     enemies |-> <<>>,
     player |-> [move_data |-> MoveData(<<0, 0>>,
                                        <<Trunc(WINDOW_WIDTH * PX, 2),
                                          Trunc(WINDOW_HEIGHT * PX, 2)>>,
                                        <<0, 0>>, PLAYER_INIT_FRICTION, 0, 0),
                 sprite_data |-> SpriteData(PLAYER_INIT_SIZE, PLAYER_INIT_SIDES,
                                            <<21, 121, 212>>)],
     explosions |-> <<>>]

----------------------------------------------------------------------------
(* Game.py, the earlier program: its globals and its collision pass *)

\* size = width, height = 512, 512
width == 512
height == 512

\* player = PlayerActor([0,0], [width/2, height/2], 0.9, 4, 8); the collision
\* pass reads the position and the size only.
PlayerActor_init ==
    [position |-> <<Trunc(width * PX, 2), Trunc(height * PX, 2)>>, size |-> 4]

\* collidesWith had it left the other actor's size out
collidesWith_OwnSizeOnly(self, otherPolygonActor) ==
    LET dx == self.position[1] - otherPolygonActor.position[1]
        dy == self.position[2] - otherPolygonActor.position[2]
        dist == Sqrt(dx * dx + dy * dy)
    IN  dist < self.size * PX

\* PolygonActor.collidesWith(self, otherPolygonActor)
collidesWith(self, otherPolygonActor) ==
    LET dx == self.position[1] - otherPolygonActor.position[1]
        dy == self.position[2] - otherPolygonActor.position[2]
        dist == Sqrt(dx * dx + dy * dy)
    IN  dist < (self.size + otherPolygonActor.size) * PX

\* The loop "for enemy in enemies" of the main loop from enemy i on:
\* p is the player, nonCollidingEnemies the list built so far, done is isDone.
RECURSIVE CollisionPass(_, _, _, _, _)
CollisionPass(p, es, i, nonCollidingEnemies, done) ==
    IF i > Len(es)
    THEN [player |-> p, enemies |-> nonCollidingEnemies, isDone |-> done]
    ELSE IF collidesWith(p, es[i])
         THEN IF p.size > es[i].size
              THEN CollisionPass([p EXCEPT !.size = @ + 1], es, i + 1,
                                 nonCollidingEnemies, done)
              ELSE CollisionPass(p, es, i + 1, nonCollidingEnemies, TRUE)
         ELSE CollisionPass(p, es, i + 1, Append(nonCollidingEnemies, es[i]), done)

----------------------------------------------------------------------------
(* Inputs: what the environment may hand to one frame *)

\* Keys held when a loop reads pygame.key.get_pressed()
TitleKeys == {{}, {"RETURN"}, {"ESCAPE"}, {"RETURN", "ESCAPE"}}
PlayKeys == {{}, {"LEFT", "UP"}, {"RIGHT", "DOWN", "ESCAPE"}}

\* Window-close events that arrive during a frame
Arrivals == {{}, {"QUIT"}}

\* Draws of EnemyActor.__init__ the model follows, for a player of size p_size:
\* a smallest enemy from the left edge and a larger enemy from the top edge,
\* both at full speed and aimed at the middle of the surface.
SpawnDraws(p_size) ==
    {d \in {[size |-> Trunc(p_size, ENEMY_SIZE_SCALE), edge |-> 0, along |-> 500,
             jitter |-> 500, rand_speed |-> ENEMY_SPEED_MAX, num_sides |-> 4,
             rotation_rate |-> 1],
            [size |-> p_size + 1, edge |-> 2, along |-> 500,
             jitter |-> 500, rand_speed |-> ENEMY_SPEED_MAX, num_sides |-> 3,
             rotation_rate |-> 0]} :
        RandomDraws(p_size, d)}

\* The random.random() pairs of the particles of one explosion: the first is
\* thrown up and left, the next down and left, ...
ParticleDraws ==
    {[i \in 1..N_PARTICLES |-> <<(200 * i) % 1000, (350 * i) % 1000>>]}

\* Wall-clock time one frame takes: a tick of the frame clock, or longer than
\* the duration of an explosion
Elapsed == {"tick", "long"}

----------------------------------------------------------------------------
(* The loops of game.py *)

\* frames_per_enemy_spawn as both loops compute it.  The program writes
\*     if frames_per_enemy_spawn < FRAMES_PER_ENEMY_SPAWN_MIN:
\*         frames_per_enemy_spawn = frames_per_enemy_spawn
spawn_interval(score) ==
    LET interval == Trunc(2 * FRAMES_PER_ENEMY_SPAWN_INIT - score, 2)
    IN  IF interval < FRAMES_PER_ENEMY_SPAWN_MIN THEN interval ELSE interval

\* The enemies random.randint(1, interval) == 1 may append this frame: none
\* (the draw was not 1) or one.  randint raises ValueError below 1.
Spawns(gd, interval) ==
    (IF interval >= 2 THEN {<<>>} ELSE {})
    \cup (IF Len(gd.enemies) < MaxEnemies
          THEN {<<EnemyActor(gd.player.sprite_data.size, d)>> :
                    d \in SpawnDraws(gd.player.sprite_data.size)}
          ELSE {})

Rotate(c) == <<c[2], c[3], c[1]>>

\* The process has ended (quit_game(), or an exception out of main()): its
\* objects are gone, and the model keeps none of them.
Gone == "gone"

\* game.py when main() enters title_screen_loop
InitGame ==
    /\ phase = "TITLE"
    /\ pc = "frame"
    /\ game_data = initialize_game_data
    /\ screen = <<>>
    /\ keys = {}
    /\ events = {}
    /\ frames_per_enemy_spawn = 0
    /\ collision = ""
    /\ frame = 0

\* Game.py when its main loop is entered
InitScan ==
    /\ player = PlayerActor_init
    /\ enemies = <<>>
    /\ isDone = FALSE
    /\ passes = 0

Init == InitGame /\ InitScan

\* enemy.sprite_data.fill_color = [255, 255, 255] for every enemy
Whiten(es) ==
    [k \in 1..Len(es) |-> [es[k] EXCEPT !.sprite_data.fill_color = <<255, 255, 255>>]]

\* One iteration of title_screen_loop.  On Enter the loop returns and main()
\* goes on: game_data = initialize_game_data(); gameplay_loop(game_data).
title_screen_loop ==
    /\ phase = "TITLE"
    /\ pc = "frame"
    /\ frame < MaxFrames
    /\ spawn_interval(game_data.score) >= 1
    /\ frames_per_enemy_spawn' = spawn_interval(game_data.score)
    /\ \E spawn \in Spawns(game_data, spawn_interval(game_data.score)),
          held \in TitleKeys, arrived \in Arrivals :
        LET white == Whiten(MoveEnemies(game_data.enemies \o spawn))
        IN  /\ keys' = held
            /\ IF "RETURN" \in held
               THEN /\ phase' = "PLAYING"
                    /\ game_data' = initialize_game_data
                    /\ events' = events \cup arrived
                    /\ frame' = 0
               ELSE /\ events' = {}
                    /\ frame' = frame + 1
                    /\ IF "ESCAPE" \in held \/ "QUIT" \in events \cup arrived
                       THEN phase' = "terminated" /\ game_data' = Gone
                       ELSE /\ phase' = "TITLE"
                            /\ game_data' = [game_data EXCEPT !.enemies = white]
    /\ UNCHANGED <<pc, screen, collision>>
    /\ UNCHANGED scanVars

\* player.draw(): generate_poly leaves the vertices in sprite_data.verts
PolygonActor_draw(p) ==
    [p EXCEPT !.sprite_data.verts = generate_poly(p.move_data, p.sprite_data)]

\* player.move(), player.draw() and enemy.move() for every enemy
MoveAll(gd, held) ==
    [gd EXCEPT !.player = PolygonActor_draw(PlayerActor_move(gd.player, held)),
               !.enemies = MoveEnemies(gd.enemies)]

\* gameplay_loop while game_is_playing, up to the draws: the spawn, the fill,
\* explosion.update() for every explosion, player.move() and draw(), and
\* enemy.move() and draw() for every enemy.
gameplay_move ==
    /\ phase = "PLAYING"
    /\ pc = "frame"
    /\ frame < MaxFrames
    /\ spawn_interval(game_data.score) >= 1
    /\ frames_per_enemy_spawn' = spawn_interval(game_data.score)
    /\ \E spawn \in Spawns(game_data, spawn_interval(game_data.score)),
          elapsed \in Elapsed,
          held \in PlayKeys :
        /\ elapsed = "long" =>
               \E j \in 1..Len(game_data.explosions) :
                   game_data.explosions[j].particles # <<>>
        /\ \E gd \in {MoveAll(UpdateExplosions(
                                [game_data EXCEPT !.enemies = @ \o spawn], 1,
                                IF elapsed = "long"
                                THEN Len(game_data.explosions) ELSE 0),
                            held)} :
               /\ keys' = held
               /\ game_data' = gd
               /\ screen' = Draw(gd)
    /\ pc' = "collide"
    /\ UNCHANGED <<phase, events, collision, frame>>
    /\ UNCHANGED scanVars

\* The rest of that frame: check_collision, what the loop does with the
\* result, and the event loop at the end of the frame.
gameplay_collide ==
    /\ phase = "PLAYING"
    /\ pc = "collide"
    /\ \E r \in {check_collision(game_data.player, game_data.enemies, screen)} :
           \E draws \in ParticleDraws, arrived \in Arrivals :
             LET boom == Explosion(r.player.move_data, r.player.sprite_data, draws)
                 quit == "QUIT" \in events \cup arrived
             IN  /\ collision' = r.result
                 \* a round is followed while the grown player fits the surface
                 /\ r.result = "EAT" =>
                        2 * r.player.sprite_data.size <= Min2(WINDOW_WIDTH, WINDOW_HEIGHT)
                 /\ events' = {}
                 /\ IF r.result = "IndexError"
                    THEN phase' = "crashed" /\ game_data' = Gone
                    ELSE IF quit
                    THEN phase' = "terminated" /\ game_data' = Gone
                    ELSE CASE r.result = "DEAD" ->
                                /\ phase' = "GAME_OVER"
                                /\ game_data' = [game_data EXCEPT
                                                    !.explosions = Append(@, boom)]
                           [] r.result = "EAT" ->
                                /\ phase' = "PLAYING"
                                /\ game_data' =
                                     [game_data EXCEPT
                                         !.player = r.player,
                                         !.enemies = r.enemies,
                                         !.window_tint = Rotate(@),
                                         !.font_color = Rotate(@),
                                         !.score = @ + 1,
                                         !.explosions = Append(@, boom)]
                           [] r.result = "NONE" ->
                                /\ phase' = "PLAYING"
                                /\ UNCHANGED game_data
    /\ pc' = "frame"
    /\ frame' = frame + 1
    /\ UNCHANGED <<screen, keys, frames_per_enemy_spawn>>
    /\ UNCHANGED scanVars

\* A restart that reset the score and the player and kept the rest
restart_KeepsRound(gd) ==
    [gd EXCEPT !.score = 0, !.player = initialize_game_data.player]

\* The restart of gameplay_loop: game_data = initialize_game_data() replaces
\* the round's data gd.
restart(gd) == initialize_game_data

\* One iteration of gameplay_loop while not game_is_playing: the spawn, the
\* fill, enemy.move() and draw() for every enemy, and the keys.  Nothing is
\* probed, so the model keeps no pixel of this frame's surface.
gameplay_game_over ==
    /\ phase = "GAME_OVER"
    /\ pc = "frame"
    /\ frame < MaxFrames
    /\ spawn_interval(game_data.score) >= 1
    /\ frames_per_enemy_spawn' = spawn_interval(game_data.score)
    /\ \E spawn \in Spawns(game_data, spawn_interval(game_data.score)),
          held \in TitleKeys, arrived \in Arrivals :
        \E shown \in {[game_data EXCEPT
                            !.enemies = MoveEnemies(@ \o spawn),
                            !.window_tint = <<0, 0, 0>>]} :
            /\ keys' = held
            /\ events' = {}
            /\ IF "ESCAPE" \in held \/ "QUIT" \in events \cup arrived
               THEN phase' = "terminated" /\ game_data' = Gone
               ELSE IF "RETURN" \in held
               THEN phase' = "PLAYING" /\ game_data' = restart(shown)
               ELSE phase' = "GAME_OVER" /\ game_data' = shown
    /\ frame' = frame + 1
    /\ screen' = <<>>
    /\ UNCHANGED <<pc, collision>>
    /\ UNCHANGED scanVars

\* The game from main() on.  Within MaxFrames the score stays far below the
\* scores at which the spawn draw changes (see SpecSpawn).
Next ==
    \/ title_screen_loop
    \/ gameplay_move
    \/ gameplay_collide
    \/ gameplay_game_over

Spec == Init /\ [][Next]_vars

----------------------------------------------------------------------------
(* The spawn draw at every score a round can reach *)

\* Scores the spawn draw is followed for.
MaxScore == 100

\* A loop about to start a frame with the score at s: the title loop with the
\* score initialize_game_data gave, the gameplay loop in either branch with
\* the score and the size s EAT outcomes leave.
InitSpawn ==
    /\ \E s \in 0..MaxScore :
        /\ phase \in (IF s = 0 THEN {"TITLE"} ELSE {}) \cup {"PLAYING", "GAME_OVER"}
        /\ game_data = [initialize_game_data EXCEPT
                           !.score = s,
                           !.player.sprite_data.size = PLAYER_INIT_SIZE + s]
    /\ pc = "frame"
    /\ screen = <<>>
    /\ keys = {}
    /\ events = {}
    /\ frames_per_enemy_spawn = 0
    /\ collision = ""
    /\ frame = 0
    /\ InitScan

\* The first statements of a frame of either loop, up to the draw
\* random.randint(1, frames_per_enemy_spawn), where the draw succeeds
SpawnDraw ==
    /\ phase \in {"TITLE", "PLAYING", "GAME_OVER"}
    /\ pc = "frame"
    /\ spawn_interval(game_data.score) >= 1
    /\ frames_per_enemy_spawn' = spawn_interval(game_data.score)
    /\ pc' = "spawned"
    /\ UNCHANGED <<phase, game_data, screen, keys, events, collision, frame>>
    /\ UNCHANGED scanVars

\* The same statements where randint's range is empty: ValueError, which
\* nothing catches
SpawnRaises ==
    /\ phase \in {"TITLE", "PLAYING", "GAME_OVER"}
    /\ pc = "frame"
    /\ spawn_interval(game_data.score) < 1
    /\ frames_per_enemy_spawn' = spawn_interval(game_data.score)
    /\ phase' = "crashed"
    /\ pc' = "spawned"
    /\ UNCHANGED <<game_data, screen, keys, events, collision, frame>>
    /\ UNCHANGED scanVars

NextSpawn ==
    \/ SpawnDraw
    \/ SpawnRaises

SpecSpawn == InitSpawn /\ [][NextSpawn]_vars

----------------------------------------------------------------------------
(* check_collision on any surface *)

\* Probe pixels that carry a colour code in the surfaces drawn from.
MaxCoded == 2

\* Surfaces with at most MaxCoded coded probe pixels over the background
ProbeSurfaces(p, background) ==
    LET pixels == ProbePixels(p)
        codes == {ENEMY_SMALL_COLOR_CODE, ENEMY_BIG_COLOR_CODE}
    IN  {[px \in pixels |-> IF px \in DOMAIN coded THEN coded[px] ELSE background] :
            coded \in UNION {[c -> codes] :
                                c \in {s \in SUBSET pixels : Cardinality(s) <= MaxCoded}}}

\* Enemy lists in front of the probe: none, or enemies of SpawnDraws that
\* have moved once
ProbeEnemies(p_size) ==
    LET one == {EnemyActor(p_size, d) : d \in SpawnDraws(p_size)}
    IN  {<<>>} \cup {MoveEnemies(<<a>>) : a \in one}
               \cup {MoveEnemies(<<a, b>>) : a \in one, b \in one}

\* check_collision is about to be called, in the first frame of a round, on
\* whatever the surface holds and whatever the enemy list is.
InitProbe ==
    /\ phase = "PLAYING"
    /\ pc = "collide"
    /\ \E es \in ProbeEnemies(PLAYER_INIT_SIZE) :
         /\ game_data = [initialize_game_data EXCEPT
                            !.player = PolygonActor_draw(@), !.enemies = es]
         /\ screen \in ProbeSurfaces(PolygonActor_draw(initialize_game_data.player),
                                     initialize_game_data.window_tint[3])
    /\ keys = {}
    /\ events = {}
    /\ frames_per_enemy_spawn = spawn_interval(0)
    /\ collision = ""
    /\ frame = 0
    /\ InitScan

NextProbe == gameplay_collide

SpecProbe == InitProbe /\ [][NextProbe]_vars

----------------------------------------------------------------------------
(* The collision pass of Game.py on any enemy list *)

\* Enemies in the lists the pass is run on.
MaxScanEnemies == 3
\* Iterations of the main loop.
MaxPasses == 2

\* Enemies around a player at the middle of the window, by size and offset in
\* pixels: overlapping and smaller, overlapping and larger, clear, touching
\* a player of size 10 without overlapping it, overlapping and of size 10.
ScanEnemies ==
    {[position |-> <<PlayerActor_init.position[1] + c[2] * PX,
                     PlayerActor_init.position[2] + c[3] * PX>>,
      size |-> c[1]] :
        c \in {<<5, 12, 0>>, <<20, 25, 0>>, <<20, 0, 31>>, <<5, 9, 12>>, <<10, -15, 0>>}}

\* The player after six enemies eaten
ScanPlayer == [PlayerActor_init EXCEPT !.size = 10]

InitScanPass ==
    /\ InitGame
    /\ player = ScanPlayer
    /\ enemies \in UNION {[1..n -> ScanEnemies] : n \in 0..MaxScanEnemies}
    /\ isDone = FALSE
    /\ passes = 0

\* Lines 155-165 of one iteration of the main loop
collision_scan ==
    /\ isDone = FALSE
    /\ passes < MaxPasses
    /\ passes' = passes + 1
    /\ LET r == CollisionPass(player, enemies, 1, <<>>, isDone)
       IN  /\ player' = r.player
           /\ enemies' = r.enemies
           /\ isDone' = r.isDone
    /\ UNCHANGED gameVars

NextScan == collision_scan

SpecScan == InitScanPass /\ [][NextScan]_vars


----------------------------------------------------------------------------
(* check_collision on a surface drawn from enemies near the player *)

MaxNear == 2

\* Where the enemies are: around the player's vertex 0, which points right
NearPlaces == {<<x * PX, y * PX>> : x \in {13, 15, 17}, y \in {6, 8, 10}}

\* Draws of EnemyActor.__init__ for a player of size p_size: a smallest
\* square and a triangle one larger than the player, neither rotating
NearDraws(p_size) ==
    {d \in {[size |-> Trunc(p_size, ENEMY_SIZE_SCALE), edge |-> 1, along |-> 500,
             jitter |-> 500, rand_speed |-> ENEMY_SPEED_MIN, num_sides |-> 4,
             rotation_rate |-> 0],
            [size |-> p_size + 1, edge |-> 1, along |-> 500,
             jitter |-> 500, rand_speed |-> ENEMY_SPEED_MIN, num_sides |-> 3,
             rotation_rate |-> 0]} :
        RandomDraws(p_size, d)}

\* Those enemies, each at the place its flight has taken it to
NearEnemies(p_size) ==
    {[EnemyActor(p_size, d) EXCEPT !.move_data.position = place] :
        d \in NearDraws(p_size), place \in NearPlaces}

\* Enemy lists of up to MaxNear enemies, in every order
NearLists(p_size) ==
    UNION {[1..n -> NearEnemies(p_size)] : n \in 1..MaxNear}

\* check_collision is about to be called in the first frame of a round: the
\* player and the enemies have been drawn, in list order, on the surface.
InitNear ==
    /\ phase = "PLAYING"
    /\ pc = "collide"
    /\ \E es \in NearLists(PLAYER_INIT_SIZE) :
         \E gd \in {[initialize_game_data EXCEPT
                        !.player = PolygonActor_draw(@), !.enemies = es]} :
             /\ game_data = gd
             /\ screen = Draw(gd)
    /\ keys = {}
    /\ events = {}
    /\ frames_per_enemy_spawn = spawn_interval(0)
    /\ collision = ""
    /\ frame = 0
    /\ InitScan

NextNear == gameplay_collide

SpecNear == InitNear /\ [][NextNear]_vars
----------------------------------------------------------------------------
(* Properties of game.py *)

Live == phase \in {"TITLE", "PLAYING", "GAME_OVER"}

Within(position, size) ==
    /\ size * PX <= position[1] /\ position[1] <= (WINDOW_WIDTH - size) * PX
    /\ size * PX <= position[2] /\ position[2] <= (WINDOW_HEIGHT - size) * PX

\* C1, as the specification states it: at the end of every frame of a round
\* the player's position lies within [size, W - size] x [size, H - size] for
\* the player's current size, EAT growth included.
C1_ContainedAtFrameEnd ==
    (phase \in {"PLAYING", "GAME_OVER"} /\ pc = "frame") =>
        Within(game_data.player.move_data.position, game_data.player.sprite_data.size)

\* C1: what the code keeps.  Right after the player's move step of a PLAYING
\* frame, when the player is drawn and probed, the position lies within
\* [size, W - size] x [size, H - size] as long as the player fits the window
\* (2 * size <= W and 2 * size <= H).  The growth of an EAT outcome comes
\* after the clamp and does not clamp again: at the end of the frame the
\* bounds hold for the size the move step used, size - 1 after an EAT.
C1_ContainedAfterMove ==
    /\ (phase = "PLAYING" /\ pc = "collide"
            /\ 2 * game_data.player.sprite_data.size <= Min2(WINDOW_WIDTH, WINDOW_HEIGHT)) =>
           Within(game_data.player.move_data.position, game_data.player.sprite_data.size)
    /\ (phase \in {"PLAYING", "GAME_OVER"} /\ pc = "frame") =>
           Within(game_data.player.move_data.position,
                  game_data.player.sprite_data.size
                      - (IF phase = "PLAYING" /\ collision = "EAT" THEN 1 ELSE 0))

\* A grown player, dragged by the particles of its explosions, that the move
\* step has just clamped onto a wall
C1_ClampedAtWall ==
    /\ phase = "PLAYING" /\ pc = "collide"
    /\ game_data.score >= 1
    /\ \E j \in 1..Len(game_data.explosions) : game_data.explosions[j].particles # <<>>
    /\ \/ game_data.player.move_data.position[1] = game_data.player.sprite_data.size * PX
       \/ game_data.player.move_data.position[2] = game_data.player.sprite_data.size * PX
       \/ game_data.player.move_data.position[1]
              = (WINDOW_WIDTH - game_data.player.sprite_data.size) * PX
       \/ game_data.player.move_data.position[2]
              = (WINDOW_HEIGHT - game_data.player.sprite_data.size) * PX

\* C2: within a round the player's size grows by exactly 1 in the step that
\* ends with an EAT outcome and is the same after every other step (the move
\* step, NONE and DEAD outcomes, title and game-over frames).  A step into
\* PLAYING from another phase starts a new round.
C2_GrowthOnlyByEat ==
    [][(Live /\ Live' /\ ~(phase # "PLAYING" /\ phase' = "PLAYING")) =>
          game_data'.player.sprite_data.size =
              game_data.player.sprite_data.size
                  + (IF pc = "collide" /\ collision' = "EAT" THEN 1 ELSE 0)]_vars

\* Two EAT outcomes in one round
C2_GrownTwice ==
    /\ phase = "PLAYING" /\ pc = "frame" /\ collision = "EAT"
    /\ game_data.score = 2
    /\ game_data.player.sprite_data.size = PLAYER_INIT_SIZE + 2

\* C3, as the specification states it: the interval used for the spawn draw
\* is at least FRAMES_PER_ENEMY_SPAWN_MIN at every score, and is
\* FRAMES_PER_ENEMY_SPAWN_INIT at score 0.
C3_SpawnIntervalFloor ==
    pc = "spawned" =>
        /\ frames_per_enemy_spawn >= FRAMES_PER_ENEMY_SPAWN_MIN
        /\ game_data.score = 0 => frames_per_enemy_spawn = FRAMES_PER_ENEMY_SPAWN_INIT

\* C4, as the specification states it: a frame of any phase in which Escape
\* was down or a window-close event was pending ends with the process
\* terminated.
C4_QuitFromEveryPhase ==
    (phase # "crashed" /\ pc = "frame" /\ ("ESCAPE" \in keys \/ "QUIT" \in events)) =>
        phase = "terminated"

\* The blue channels check_collision reads, in the order of its probe points
\* (-1: the pixel is off the surface)
ProbeBlues ==
    LET points == points_to_check(game_data.player)
    IN  [i \in 1..Len(points) |->
            IF Pixel(points[i]) \in DOMAIN screen THEN screen[Pixel(points[i])] ELSE -1]

Codes == {ENEMY_SMALL_COLOR_CODE, ENEMY_BIG_COLOR_CODE}

\* Probe point i carries a code, and every probe point before it is on the
\* surface and carries none
FirstCoded(blues, i) ==
    /\ blues[i] \in Codes
    /\ \A j \in 1..(i - 1) : blues[j] # -1 /\ blues[j] \notin Codes

Probing == phase = "PLAYING" /\ pc = "collide"

\* C5, as the specification states it: if any probe point read by
\* check_collision has the blue channel ENEMY_BIG_COLOR_CODE the outcome is
\* DEAD, whatever the other probe points carry and whatever their order, and
\* then no enemy is removed and the player does not grow.
C5_DeathPrecedence ==
    [][Probing =>
          \A blues \in {ProbeBlues} :
              (/\ \A i \in DOMAIN blues : blues[i] # -1
               /\ \E i \in DOMAIN blues : blues[i] = ENEMY_BIG_COLOR_CODE) =>
                  /\ collision' = "DEAD"
                  /\ Live' => /\ game_data'.enemies = game_data.enemies
                              /\ game_data'.player = game_data.player]_vars

\* C5: what the code does.  The first probe point that carries either code,
\* in the order vertices, centre, ring, decides: DEAD with no enemy removed
\* and no growth if it carries ENEMY_BIG_COLOR_CODE; if it carries
\* ENEMY_SMALL_COLOR_CODE the outcome is not DEAD whatever later probe
\* points carry, and is EAT when there is an enemy to remove.
C5_FirstCodedDecides ==
    [][Probing =>
          \A blues \in {ProbeBlues} :
              \A i \in DOMAIN blues :
                  FirstCoded(blues, i) =>
                      IF blues[i] = ENEMY_BIG_COLOR_CODE
                      THEN /\ collision' = "DEAD"
                           /\ Live' => /\ game_data'.enemies = game_data.enemies
                                       /\ game_data'.player = game_data.player
                      ELSE /\ collision' # "DEAD"
                           /\ game_data.enemies # <<>> => collision' = "EAT"]_vars

\* An EAT outcome on a surface where a probe point carried the big code
C5_EatenBesideBig ==
    /\ phase = "PLAYING" /\ pc = "frame" /\ collision = "EAT"
    /\ \E px \in DOMAIN screen : screen[px] = ENEMY_BIG_COLOR_CODE

C8_ColourMatchesSize ==
    Probing =>
        \A k \in 1..Len(game_data.enemies) :
            LET e == game_data.enemies[k].sprite_data
                p_size == game_data.player.sprite_data.size
            IN  /\ e.size > p_size => e.fill_color[3] = ENEMY_BIG_COLOR_CODE
                /\ e.size < p_size => e.fill_color[3] = ENEMY_SMALL_COLOR_CODE

\* An enemy spawned larger than the player is drawn after the player has
\* outgrown it by two EAT outcomes
C8_OutgrownEnemyDrawn ==
    /\ Probing
    /\ game_data.score = 2
    /\ \E k \in 1..Len(game_data.enemies) :
           /\ game_data.enemies[k].sprite_data.size = PLAYER_INIT_SIZE + 1
           /\ game_data.enemies[k].sprite_data.fill_color[3] = ENEMY_SMALL_COLOR_CODE

\* C9: a GAME_OVER frame with Enter down that does not quit leaves the game
\* in PLAYING with score 0, the player at PLAYER_INIT_SIZE, no enemy and no
\* explosion.
C9_RestartIsFresh ==
    [][(phase = "GAME_OVER" /\ "RETURN" \in keys' /\ phase' # "terminated") =>
          /\ phase' = "PLAYING"
          /\ game_data'.score = 0
          /\ game_data'.player.sprite_data.size = PLAYER_INIT_SIZE
          /\ game_data'.enemies = <<>>
          /\ game_data'.explosions = <<>>]_vars

\* A round restarted with Enter after a DEAD outcome
C9_Restarted ==
    /\ phase = "PLAYING" /\ pc = "frame" /\ collision = "DEAD"
    /\ "RETURN" \in keys
    /\ game_data.score = 0

\* C10, as the specification states it: a frame spent in GAME_OVER leaves the
\* player as it was, moves every enemy, and moves every particle of every
\* explosion (its speed, with the acceleration added, times the friction).
C10_GameOverFrame ==
    [][(phase = "GAME_OVER" /\ phase' = "GAME_OVER") =>
          /\ game_data'.player = game_data.player
          /\ \A k \in 1..Len(game_data.enemies) :
                 game_data'.enemies[k].move_data =
                     PolygonActor_move(game_data.enemies[k].move_data)
          /\ \A j \in 1..Len(game_data.explosions) :
                 \A i \in 1..Len(game_data.explosions[j].particles) :
                     LET ex == game_data.explosions[j]
                     IN  game_data'.explosions[j].particles[i].speed =
                             <<Scale(ex.particles[i].speed[1] + ex.acceleration[1],
                                     PARTICLE_FRICTION, 1000),
                               Scale(ex.particles[i].speed[2] + ex.acceleration[2],
                                     PARTICLE_FRICTION, 1000)>>]_vars

----------------------------------------------------------------------------
(* Properties of Game.py *)

\* The enemy at index k of the list overlaps a player of size s
Overlaps(s, k) ==
    LET dx == player.position[1] - enemies[k].position[1]
        dy == player.position[2] - enemies[k].position[2]
    IN  dx * dx + dy * dy < ((s + enemies[k].size) * PX) * ((s + enemies[k].size) * PX)

\* C6, as the specification states it: the first overlapping enemy decides
\* the pass.  Smaller than the player: it alone is removed and the player
\* grows by 1.  Larger or equal: DEAD, nothing removed, no growth.  None
\* overlapping: nothing changes.
C6_FirstOverlapDecides ==
    [][isDone = FALSE =>
          LET hits == {k \in 1..Len(enemies) : Overlaps(player.size, k)}
          IN  IF hits = {}
              THEN enemies' = enemies /\ player' = player /\ isDone' = FALSE
              ELSE LET first == CHOOSE k \in hits : \A j \in hits : k <= j
                   IN  IF enemies[first].size < player.size
                       THEN /\ enemies' = RemoveAt(enemies, first)
                            /\ player'.size = player.size + 1
                            /\ isDone' = FALSE
                       ELSE /\ enemies' = enemies
                            /\ player' = player
                            /\ isDone' = TRUE]_vars

\* C6: what the code does.  The pass goes through the whole list.  With g[k]
\* the player's size after the turn of enemy k (g[0] the size before the
\* pass): every enemy that overlaps the player at its turn is removed,
\* whatever its size; each one smaller than the player at its turn grows the
\* player by 1, each other one sets isDone; the enemies that do not overlap
\* stay, in order; the player does not move.
C6_EveryOverlapResolved ==
    [][isDone = FALSE =>
          LET n == Len(enemies)
          IN  \E g \in [0..n -> player.size..(player.size + n)] :
                  LET hit(k) == Overlaps(g[k - 1], k)
                      kept == {k \in 1..n : ~hit(k)}
                  IN  /\ g[0] = player.size
                      /\ \A k \in 1..n :
                             g[k] = g[k - 1]
                                 + (IF hit(k) /\ enemies[k].size < g[k - 1] THEN 1 ELSE 0)
                      /\ player'.size = g[n]
                      /\ player'.position = player.position
                      /\ Len(enemies') = Cardinality(kept)
                      /\ \A k \in kept :
                             enemies'[Cardinality({j \in kept : j <= k})] = enemies[k]
                      /\ isDone' = (\E k \in 1..n :
                                        hit(k) /\ enemies[k].size >= g[k - 1])]_vars

\* A pass that ate one enemy, was ended by a larger one, and removed both
C6_EatenAndKilled ==
    /\ isDone = TRUE
    /\ player.size = ScanPlayer.size + 1
    /\ enemies = <<>>


----------------------------------------------------------------------------
(* Properties of the explosions of game.py *)

\* C11, as the specification states it: in a round the player's position is
\* changed by the player's own move step only, once per frame.  The steps of
\* a PLAYING frame up to the draws take it from its value at the start of
\* the frame to what player.move() makes of that value; no enemy and no
\* particle of an explosion changes it; the rest of the frame leaves it as
\* it is.
C11_PositionOwnedByPlayer ==
    [][(phase = "PLAYING" /\ phase' \in {"PLAYING", "GAME_OVER"}) =>
          game_data'.player.move_data.position =
              IF pc = "frame"
              THEN PlayerActor_move(game_data.player, keys').move_data.position
              ELSE game_data.player.move_data.position]_vars

\* C12, as the specification states it: every explosion gives its particles
\* the acceleration [0, 0], whatever keys were held in the frame that made
\* it, and a move step of a particle only multiplies its speed by the
\* friction.
C12_ParticleDrift ==
    [][(Live /\ Live') =>
          \A j \in 1..Len(game_data'.explosions) :
              /\ game_data'.explosions[j].acceleration = <<0, 0>>
              /\ (phase = "PLAYING" /\ pc = "frame" /\ phase' = "PLAYING") =>
                     \A i \in 1..Len(game_data'.explosions[j].particles) :
                         game_data'.explosions[j].particles[i].speed =
                             <<Scale(game_data.explosions[j].particles[i].speed[1],
                                     PARTICLE_FRICTION, 1000),
                               Scale(game_data.explosions[j].particles[i].speed[2],
                                     PARTICLE_FRICTION, 1000)>>]_vars

\* C13, as the specification states it: when check_collision is called,
\* every point it samples (the vertices, the centre and the ring) truncates
\* to a pixel (x, y) with 0 <= x < WINDOW_WIDTH and 0 <= y < WINDOW_HEIGHT.
C13_ProbesOnSurface ==
    Probing =>
        \A point \in Range(points_to_check(game_data.player)) :
            OnSurface(Pixel(point))

\* The enemies of a list by what tells them apart: move data, size and sides
Bodies(es) ==
    [k \in 1..Len(es) |-> <<es[k].move_data, es[k].sprite_data.size,
                            es[k].sprite_data.num_sides>>]

\* C14, as the specification states it: when check_collision returns EAT,
\* the enemy it has removed from the list is not larger than the player was
\* before it grew.
C14_EatenIsNotLarger ==
    [][(Probing /\ collision' = "EAT" /\ phase' = "PLAYING") =>
          \A k \in 1..Len(game_data.enemies) :
              Bodies(game_data'.enemies) = RemoveAt(Bodies(game_data.enemies), k) =>
                  game_data.enemies[k].sprite_data.size
                      <= game_data.player.sprite_data.size]_vars
====
